---- MODULE Spec2Model ----
(***************************************************************************)
(* MungLinker: the notation graph edge operations and the graph updater    *)
(* of munglinker/run.py, and the object matcher and edge scoring of        *)
(* munglinker/evaluate_notation_assembly_from_mung.py.                     *)
(***************************************************************************)
EXTENDS Integers, Sequences, FiniteSets, TLC

VARIABLES
    graph,      \* id_to_crop_object_mapping: objid -> [outlinks, inlinks] (Python lists)
    last,       \* the last edge operation called: [op, from, to, result]
    pre,        \* the mapping as it was when the last edge operation was called
    prev,       \* the edge operation called before the last one
    pre_prev,   \* the mapping as it was when that one was called
    ncalls,     \* number of edge operations called so far
    mung,       \* run(): the caller's cropobjects, objid -> [outlinks, inlinks]
    replace_all_edges,  \* run(): self.replace_all_edges
    decisions,  \* run(): the (from, to, output_class) triples processed so far
    run_pc,     \* run(): "called", "loop", "returned" or "aborted" (an exception left run)
    p_obj,      \* match(): the predicted object
    r_obj,      \* match(): the reference object
    threshold,  \* match(): the threshold, the fraction num/den
    matched,    \* match(): "none" before the call, then the value returned
    reference_objects,  \* main(): the reference cropobject list
    predicted_objects,  \* main(): the predicted cropobject list
    object_matching_pair,   \* main(): the list of (predicted objid, reference objid)
    reference_to_prediction_mapping,    \* main(): dict, reference objid -> predicted objid
    prediction_to_reference_mapping,    \* main(): dict, predicted objid -> reference objid
    true_positives,
    false_positives,
    false_negatives,
    pair_idx,   \* main(): position of the scoring loop in object_matching_pair
    f1_score,   \* main(): the F1 quotient of line 127, the fraction num/den
    eval_pc     \* main(): "parsed", "scoring", "printed", or the exception that ended it

vars == <<graph, last, pre, prev, pre_prev, ncalls,
          mung, replace_all_edges, decisions, run_pc,
          p_obj, r_obj, threshold, matched,
          reference_objects, predicted_objects, object_matching_pair,
          reference_to_prediction_mapping, prediction_to_reference_mapping,
          true_positives, false_positives, false_negatives,
          pair_idx, f1_score, eval_pc>>

opVars == <<graph, last, pre, prev, pre_prev, ncalls>>
runVars == <<mung, replace_all_edges, decisions, run_pc>>
matchVars == <<p_obj, r_obj, threshold, matched>>
evalInputs == <<reference_objects, predicted_objects>>
evalVars == <<reference_objects, predicted_objects, object_matching_pair,
              reference_to_prediction_mapping, prediction_to_reference_mapping,
              true_positives, false_positives, false_negatives,
              pair_idx, f1_score, eval_pc>>

\* ---------------------------------------------------------------- bounds
MaxId == 2              \* objids of the document are 1..MaxId
MaxInitEdges == 2       \* edges of a consistent document as loaded
MaxInitEntries == 3     \* inlink/outlink entries of an arbitrary document
MaxCalls == 2           \* edge operations called on a consistent document
MaxCallsAny == 1        \* edge operations called on an arbitrary document
MaxRunEntries == 2      \* inlink/outlink entries of the document handed to run()
MaxDecisions == 2       \* classifier decisions run() receives
MaxX == 9               \* left and right of a bounding box are in 0..MaxX
MaxY == 1               \* top and bottom of a bounding box are in 0..MaxY
MaxObjects == 2         \* cropobjects of a document handed to main()
MaxLinks == 2           \* outlink entries of such a document

Nodes == 1..MaxId
\* the ids a caller may pass: the document's objids and one id not in it
Ids == 1..(MaxId + 1)

\* ------------------------------------------------------- Python list helpers
\* `x in lst`
Contains(lst, x) == \E i \in 1..Len(lst) : lst[i] = x

\* lst.remove(x): drops the first occurrence
RECURSIVE RemoveFirst(_, _)
RemoveFirst(lst, x) ==
    IF lst = <<>> THEN <<>>
    ELSE IF Head(lst) = x THEN Tail(lst)
    ELSE <<Head(lst)>> \o RemoveFirst(Tail(lst), x)

\* a set of ids as the list a loaded document holds (ascending)
RECURSIVE SortedList(_)
SortedList(S) ==
    IF S = {} THEN <<>>
    ELSE LET m == CHOOSE x \in S : \A y \in S : x <= y
         IN <<m>> \o SortedList(S \ {m})

\* ------------------------------------------------------- the matcher
\* threshold=0.7, the default of match()
ThresholdNum == 7
ThresholdDen == 10
DefaultThreshold == [num |-> ThresholdNum, den |-> ThresholdDen]

ClassNames == {"notehead-full", "stem"}

Min(a, b) == IF a < b THEN a ELSE b
Max(a, b) == IF a > b THEN a ELSE b

\* IoU >= threshold where the code has IoU > threshold
match_at_least(p, r, th) ==
    /\ p.clsname = r.clsname
    /\ LET iw == Min(p.right, r.right) - Max(p.left, r.left) + 1
           ih == Min(p.bottom, r.bottom) - Max(p.top, r.top) + 1
           ua == (p.right - p.left + 1) * (p.bottom - p.top + 1)
                 + (r.right - r.left + 1) * (r.bottom - r.top + 1) - iw * ih
       IN iw > 0 /\ ih > 0 /\ iw * ih * th.den >= th.num * ua

\* match(p_obj, r_obj, threshold). IoU = iw * ih / ua is a float64 quotient of
\* two integers; against a threshold num/den it compares as the exact
\* fractions do (iw * ih * den > num * ua): the quotient is correctly
\* rounded, and so is the threshold literal, so the two floats are equal
\* when the fractions are, and for areas this small unequal fractions are
\* many ulps apart.
match(p, r, th) ==
    IF p.clsname = r.clsname
    THEN LET box_area == (r.right - r.left + 1) * (r.bottom - r.top + 1)
             iw == Min(p.right, r.right) - Max(p.left, r.left) + 1
         IN IF iw > 0
            THEN LET ih == Min(p.bottom, r.bottom) - Max(p.top, r.top) + 1
                 IN IF ih > 0
                    THEN LET ua == (p.right - p.left + 1) * (p.bottom - p.top + 1)
                                   + box_area - (iw * ih)
                         IN iw * ih * th.den > th.num * ua
                    ELSE FALSE
            ELSE FALSE
    ELSE FALSE

\* the bounding boxes, inclusive pixel bounds
Boxes ==
    { b \in [left : 0..MaxX, top : 0..MaxY, right : 0..MaxX, bottom : 0..MaxY] :
        b.left <= b.right /\ b.top <= b.bottom }

\* the objects match() reads: a class name and a bounding box
MatchObjects ==
    { [clsname |-> c, left |-> b.left, top |-> b.top,
       right |-> b.right, bottom |-> b.bottom] : c \in ClassNames, b \in Boxes }

\* thresholds a caller passes: the default and one half
Thresholds == { DefaultThreshold, [num |-> 1, den |-> 2] }

NoObject == [clsname |-> "", left |-> 0, top |-> 0, right |-> 0, bottom |-> 0]

\* no edge operation called yet
NoCall == [op |-> "none", from |-> 0, to |-> 0, result |-> "none"]

\* no run() in progress
NoRun ==
    /\ mung = <<>>
    /\ replace_all_edges = TRUE
    /\ decisions = <<>>
    /\ run_pc = "none"

\* the state of main() before its scoring loop
NoScore == [num |-> 0, den |-> 0]

NotScored ==
    /\ object_matching_pair = <<>>
    /\ reference_to_prediction_mapping = <<>>
    /\ prediction_to_reference_mapping = <<>>
    /\ true_positives = 0
    /\ false_positives = 0
    /\ false_negatives = 0
    /\ pair_idx = 0
    /\ f1_score = NoScore

\* no evaluation under way
NoEval ==
    /\ reference_objects = <<>>
    /\ predicted_objects = <<>>
    /\ NotScored
    /\ eval_pc = "none"

\* no match() call under way
NoMatch ==
    /\ p_obj = NoObject
    /\ r_obj = NoObject
    /\ threshold = DefaultThreshold
    /\ matched = "none"


\* ------------------------------------------------------- the notation graph
\* the documents a caller can hand over: every cropobject with any lists of
\* ids of the document as outlinks and inlinks
Documents(maxEntries) ==
    { [n \in Nodes |-> [outlinks |-> SortedList(d[n].outlinks),
                        inlinks  |-> SortedList(d[n].inlinks)]] :
      d \in { e \in [Nodes -> [outlinks : SUBSET Nodes, inlinks : SUBSET Nodes]] :
              Cardinality({ <<n, k, x>> \in Nodes \X {0, 1} \X Nodes :
                            x \in (IF k = 0 THEN e[n].outlinks ELSE e[n].inlinks) })
                  <= maxEntries } }

\* b in a.outlinks <=> a in b.inlinks, for all objects a, b
Symmetric(m) ==
    \A a \in DOMAIN m : \A b \in DOMAIN m :
        Contains(m[a].outlinks, b) <=> Contains(m[b].inlinks, a)

\* the inlinks append forgotten
AppendInlinkForgotten(m, from_node, to_node) == m

\* the source's own id appended instead of the target's
AppendOutlinkOwnId(m, from_node, to_node) ==
    [m EXCEPT ![from_node].outlinks = Append(@, from_node)]

\* id_to_crop_object_mapping[from_node].outlinks.append(to_node)
AppendOutlink(m, from_node, to_node) ==
    [m EXCEPT ![from_node].outlinks = Append(@, to_node)]

\* id_to_crop_object_mapping[to_node].inlinks.append(from_node)
AppendInlink(m, from_node, to_node) ==
    [m EXCEPT ![to_node].inlinks = Append(@, from_node)]

\* the membership checks skipped: the edge is appended whatever the lists hold
add_edge_always_appends(from_node, to_node, m) ==
    IF from_node \notin DOMAIN m \/ to_node \notin DOMAIN m
    THEN [result |-> "unknown_node", graph |-> m]
    ELSE [result |-> "added",
          graph |-> AppendInlink(AppendOutlink(m, from_node, to_node),
                                 from_node, to_node)]

\* a one-sided edge completed instead of reported
add_edge_healing(from_node, to_node, m) ==
    IF from_node \notin DOMAIN m \/ to_node \notin DOMAIN m
    THEN [result |-> "unknown_node", graph |-> m]
    ELSE IF Contains(m[from_node].outlinks, to_node)
    THEN IF Contains(m[to_node].inlinks, from_node)
         THEN [result |-> "noop", graph |-> m]
         ELSE [result |-> "added", graph |-> AppendInlink(m, from_node, to_node)]
    ELSE IF Contains(m[to_node].inlinks, from_node)
    THEN [result |-> "added", graph |-> AppendOutlink(m, from_node, to_node)]
    ELSE [result |-> "added",
          graph |-> AppendInlink(AppendOutlink(m, from_node, to_node),
                                 from_node, to_node)]

\* MunglinkerRunner.add_edge_in_graph: the outcome and the mapping it leaves
add_edge_in_graph(from_node, to_node, m) ==
    IF from_node \notin DOMAIN m
    THEN [result |-> "unknown_node", graph |-> m]
    ELSE IF to_node \notin DOMAIN m
    THEN [result |-> "unknown_node", graph |-> m]
    ELSE IF Contains(m[from_node].outlinks, to_node)
    THEN IF Contains(m[to_node].inlinks, from_node)
         THEN [result |-> "noop", graph |-> m]
         ELSE [result |-> "inconsistent", graph |-> m]
    ELSE IF Contains(m[to_node].inlinks, from_node)
    THEN [result |-> "inconsistent", graph |-> m]
    ELSE [result |-> "added",
          graph |-> AppendInlink(AppendOutlink(m, from_node, to_node),
                                 from_node, to_node)]

\* only the outlinks side consulted
graph_has_edge_outlinks_only(from_node, to_node, m) ==
    IF from_node \notin DOMAIN m \/ to_node \notin DOMAIN m
    THEN "key_error"
    ELSE IF Contains(m[from_node].outlinks, to_node) THEN "true" ELSE "false"

\* MunglinkerRunner.graph_has_edge: absent ids are only logged, the lookup
\* that follows raises KeyError
graph_has_edge(from_node, to_node, m) ==
    IF from_node \notin DOMAIN m \/ to_node \notin DOMAIN m
    THEN "key_error"
    ELSE IF Contains(m[from_node].outlinks, to_node)
    THEN IF Contains(m[to_node].inlinks, from_node)
         THEN "true"
         ELSE "inconsistent"
    ELSE IF Contains(m[to_node].inlinks, from_node)
    THEN "inconsistent"
    ELSE "false"

\* NotationGraph.remove_edge (muscima library): fails on missing nodes and on
\* a one-sided edge, removes from both sides if present, no-op if absent
remove_edge(from_node, to_node, m) ==
    IF from_node \notin DOMAIN m \/ to_node \notin DOMAIN m
    THEN [result |-> "unknown_node", graph |-> m]
    ELSE IF Contains(m[from_node].outlinks, to_node)
            /\ Contains(m[to_node].inlinks, from_node)
    THEN [result |-> "removed",
          graph |-> LET m1 == [m EXCEPT ![from_node].outlinks = RemoveFirst(@, to_node)]
                    IN [m1 EXCEPT ![to_node].inlinks = RemoveFirst(@, from_node)]]
    ELSE IF Contains(m[from_node].outlinks, to_node)
            \/ Contains(m[to_node].inlinks, from_node)
    THEN [result |-> "inconsistent", graph |-> m]
    ELSE [result |-> "noop", graph |-> m]

\* ------------------------------------------------------- edge operations
\* bookkeeping of a call: the two most recent calls and the mappings they saw
Called ==
    /\ pre' = graph
    /\ prev' = last
    /\ pre_prev' = pre
    /\ ncalls' = ncalls + 1

AddEdge(limit) ==
    /\ ncalls < limit
    /\ \E f \in Ids, t \in Ids :
        LET r == add_edge_in_graph(f, t, graph) IN
        /\ graph' = r.graph
        /\ last' = [op |-> "add", from |-> f, to |-> t, result |-> r.result]
    /\ Called
    /\ UNCHANGED <<runVars, matchVars, evalVars>>

RemoveEdge(limit) ==
    /\ ncalls < limit
    /\ \E f \in Ids, t \in Ids :
        LET r == remove_edge(f, t, graph) IN
        /\ graph' = r.graph
        /\ last' = [op |-> "remove", from |-> f, to |-> t, result |-> r.result]
    /\ Called
    /\ UNCHANGED <<runVars, matchVars, evalVars>>

HasEdge(limit) ==
    /\ ncalls < limit
    /\ \E f \in Ids, t \in Ids :
        last' = [op |-> "has", from |-> f, to |-> t,
                 result |-> graph_has_edge(f, t, graph)]
    /\ graph' = graph
    /\ Called
    /\ UNCHANGED <<runVars, matchVars, evalVars>>

\* a graph whose edge lists are symmetric, then any edge operations
Init ==
    /\ graph \in { d \in Documents(2 * MaxInitEdges) : Symmetric(d) }
    /\ last = NoCall
    /\ pre = graph
    /\ prev = NoCall
    /\ pre_prev = graph
    /\ ncalls = 0
    /\ NoRun
    /\ NoMatch
    /\ NoEval

Next == AddEdge(MaxCalls) \/ RemoveEdge(MaxCalls) \/ HasEdge(MaxCalls)

Spec == Init /\ [][Next]_vars

\* any mapping, one-sided edges included, then any edge operations
InitAny ==
    /\ graph \in Documents(MaxInitEntries)
    /\ last = NoCall
    /\ pre = graph
    /\ prev = NoCall
    /\ pre_prev = graph
    /\ ncalls = 0
    /\ NoRun
    /\ NoMatch
    /\ NoEval

NextAny == AddEdge(MaxCallsAny) \/ RemoveEdge(MaxCallsAny) \/ HasEdge(MaxCallsAny)

SpecAny == InitAny /\ [][NextAny]_vars

\* ------------------------------------------------------- the graph updater
\* the clearing loop skipped
clear_links_skipped(m) == m

\* for m in mungo_copies: m.outlinks = []; m.inlinks = []
clear_links(m) == [n \in DOMAIN m |-> [outlinks |-> <<>>, inlinks |-> <<>>]]

\* the cropobjects themselves put in the new graph: what is written to the
\* new graph is written to the caller's objects
caller_objects_aliased(objs, written) == written

\* copy.deepcopy: the copies share nothing with mung.cropobjects, so the
\* caller's objects stay as they are whatever is written to the copies
caller_objects(objs, written) == objs

\* run(), up to the loop: copy, clear when replacing, build the graph and
\* the id mapping over the same copies
RunStart ==
    /\ run_pc = "called"
    /\ graph' = (IF replace_all_edges THEN clear_links(mung) ELSE mung)
    /\ mung' = caller_objects(mung, graph')
    /\ pre' = graph'
    /\ pre_prev' = graph'
    /\ run_pc' = "loop"
    /\ UNCHANGED <<last, prev, ncalls, replace_all_edges, decisions, matchVars, evalVars>>

\* one iteration of the loop over the classifier's output
RunDecision ==
    /\ run_pc = "loop"
    /\ ncalls < MaxDecisions
    /\ \E f \in Nodes, t \in Nodes, output_class \in {0, 1} :
        /\ decisions' = Append(decisions, <<f, t, output_class>>)
        /\ IF output_class = 1
           THEN LET r == add_edge_in_graph(f, t, graph) IN
                /\ graph' = r.graph
                /\ last' = [op |-> "add", from |-> f, to |-> t, result |-> r.result]
                /\ run_pc' = IF r.result \in {"unknown_node", "inconsistent"}
                             THEN "aborted" ELSE "loop"
           ELSE LET h == graph_has_edge(f, t, graph) IN
                IF h = "true"
                THEN LET r == remove_edge(f, t, graph) IN
                     /\ graph' = r.graph
                     /\ last' = [op |-> "remove", from |-> f, to |-> t,
                                 result |-> r.result]
                     /\ run_pc' = IF r.result \in {"unknown_node", "inconsistent"}
                                  THEN "aborted" ELSE "loop"
                ELSE /\ graph' = graph
                     /\ last' = [op |-> "has", from |-> f, to |-> t, result |-> h]
                     /\ run_pc' = IF h = "false" THEN "loop" ELSE "aborted"
    /\ mung' = caller_objects(mung, graph')
    /\ Called
    /\ UNCHANGED <<replace_all_edges, matchVars, evalVars>>

\* return notation_graph
RunReturn ==
    /\ run_pc = "loop"
    /\ run_pc' = "returned"
    /\ UNCHANGED <<opVars, mung, replace_all_edges, decisions, matchVars, evalVars>>

\* run() called with any document and either setting of replace_all_edges
InitRun ==
    /\ mung \in Documents(MaxRunEntries)
    /\ replace_all_edges \in BOOLEAN
    /\ decisions = <<>>
    /\ run_pc = "called"
    /\ graph = <<>>
    /\ last = NoCall
    /\ pre = <<>>
    /\ prev = NoCall
    /\ pre_prev = <<>>
    /\ ncalls = 0
    /\ NoMatch
    /\ NoEval

NextRun == RunStart \/ RunDecision \/ RunReturn

SpecRun == InitRun /\ [][NextRun]_vars

\* ------------------------------------------------------- match() on its own
Match ==
    /\ matched = "none"
    /\ matched' = IF match(p_obj, r_obj, threshold) THEN "True" ELSE "False"
    /\ UNCHANGED <<p_obj, r_obj, threshold, opVars, runVars, evalVars>>

\* match() called on any two objects with any of the thresholds
InitMatch ==
    /\ p_obj \in MatchObjects
    /\ r_obj \in MatchObjects
    /\ threshold \in Thresholds
    /\ matched = "none"
    /\ graph = <<>>
    /\ last = NoCall
    /\ pre = <<>>
    /\ prev = NoCall
    /\ pre_prev = <<>>
    /\ ncalls = 0
    /\ NoRun
    /\ NoEval

NextMatch == Match

SpecMatch == InitMatch /\ [][NextMatch]_vars

\* ------------------------------------------------------- the evaluation
\* the bounding boxes of the evaluated documents: 2, 3 and 4 pixels wide, of
\* which only the last two overlap above the default threshold
EvalBoxes ==
    { [left |-> 0, top |-> 0, right |-> w, bottom |-> 0] : w \in {1, 2, 3} }

\* the outlinks of n cropobjects, ids of the same document, at most maxLinks
LinkChoices(n, maxLinks) ==
    { l \in [1..n -> SUBSET (1..n)] :
        Cardinality({ e \in (1..n) \X (1..n) : e[2] \in l[e[1]] }) <= maxLinks }

\* the cropobject lists parse_cropobject_list may return: objids 1..n
EvalDocuments(maxLinks) ==
    UNION { { [i \in 1..n |->
                [objid |-> i, clsname |-> k[i][1],
                 left |-> k[i][2].left, top |-> k[i][2].top,
                 right |-> k[i][2].right, bottom |-> k[i][2].bottom,
                 outlinks |-> SortedList(l[i])]] :
              k \in [1..n -> ClassNames \X EvalBoxes],
              l \in LinkChoices(n, maxLinks) } :
            n \in 0..MaxObjects }

\* the inner loop of get_object_matching_pairs, for one predicted object
RECURSIVE matches_of(_, _)
matches_of(p, refs) ==
    IF refs = <<>> THEN <<>>
    ELSE (IF match(p, Head(refs), DefaultThreshold)
          THEN << <<p.objid, Head(refs).objid>> >>
          ELSE <<>>) \o matches_of(p, Tail(refs))

RECURSIVE get_object_matching_pairs(_, _)
get_object_matching_pairs(preds, refs) ==
    IF preds = <<>> THEN <<>>
    ELSE matches_of(Head(preds), refs) \o get_object_matching_pairs(Tail(preds), refs)

\* a key already in the dict keeps its first value
dict_put_keeps_first(d, k, v) ==
    [x \in DOMAIN d \cup {k} |-> IF x \in DOMAIN d THEN d[x] ELSE v]

\* d[k] = v
dict_put(d, k, v) ==
    [x \in DOMAIN d \cup {k} |-> IF x = k THEN v ELSE d[x]]

\* {pair[key]: pair[val] for pair in pairs}: the pairs put in list order
RECURSIVE dict_of_pairs(_, _, _)
dict_of_pairs(pairs, key, val) ==
    IF pairs = <<>> THEN <<>>
    ELSE LET pair == pairs[Len(pairs)]
         IN dict_put(dict_of_pairs(SubSeq(pairs, 1, Len(pairs) - 1), key, val),
                     pair[key], pair[val])

\* cropobject_dict_from_list: the last cropobject of each objid
cropobject_dict_from_list(lst) ==
    [id \in { lst[i].objid : i \in DOMAIN lst } |->
        lst[CHOOSE i \in DOMAIN lst :
                /\ lst[i].objid = id
                /\ \A j \in DOMAIN lst : lst[j].objid = id => j <= i]]

\* the test of line 124 without its `not`
is_false_negative_inverted(mapped, p_outlinks) == Contains(p_outlinks, mapped)

\* prediction_to_reference_mapping[out_p_edge] in reference_object.outlinks
is_true_positive(mapped, r_outlinks) == Contains(r_outlinks, mapped)

\* reference_to_prediction_mapping[out_r_edge] not in predicted_object.outlinks
is_false_negative(mapped, p_outlinks) == ~Contains(p_outlinks, mapped)

\* the loop of lines 115-120 over the predicted object's outlinks; a target
\* without an entry in the mapping raises KeyError and ends the loop
RECURSIVE score_predicted(_, _, _, _)
score_predicted(outs, p2r, r_outlinks, acc) ==
    IF outs = <<>> THEN acc
    ELSE IF Head(outs) \notin DOMAIN p2r THEN [acc EXCEPT !.raised = TRUE]
    ELSE IF is_true_positive(p2r[Head(outs)], r_outlinks)
    THEN score_predicted(Tail(outs), p2r, r_outlinks, [acc EXCEPT !.tp = @ + 1])
    ELSE score_predicted(Tail(outs), p2r, r_outlinks, [acc EXCEPT !.fp = @ + 1])

\* the loop of lines 123-125 over the reference object's outlinks
RECURSIVE score_reference(_, _, _, _)
score_reference(outs, r2p, p_outlinks, acc) ==
    IF outs = <<>> THEN acc
    ELSE IF Head(outs) \notin DOMAIN r2p THEN [acc EXCEPT !.raised = TRUE]
    ELSE IF is_false_negative(r2p[Head(outs)], p_outlinks)
    THEN score_reference(Tail(outs), r2p, p_outlinks, [acc EXCEPT !.fn = @ + 1])
    ELSE score_reference(Tail(outs), r2p, p_outlinks, acc)

\* main(), lines 97-108: the pairs, the two mappings, the counters at zero
BuildPairs ==
    /\ eval_pc = "parsed"
    /\ object_matching_pair' =
           get_object_matching_pairs(predicted_objects, reference_objects)
    /\ reference_to_prediction_mapping' = dict_of_pairs(object_matching_pair', 2, 1)
    /\ prediction_to_reference_mapping' = dict_of_pairs(object_matching_pair', 1, 2)
    /\ true_positives' = 0
    /\ false_positives' = 0
    /\ false_negatives' = 0
    /\ pair_idx' = 1
    /\ eval_pc' = "scoring"
    /\ UNCHANGED <<evalInputs, f1_score, opVars, runVars, matchVars>>

\* main(), lines 110-125: one iteration of the loop over the pairs
ScorePair ==
    /\ eval_pc = "scoring"
    /\ pair_idx <= Len(object_matching_pair)
    /\ LET pair == object_matching_pair[pair_idx]
           predicted_object == cropobject_dict_from_list(predicted_objects)[pair[1]]
           reference_object == cropobject_dict_from_list(reference_objects)[pair[2]]
           a == score_predicted(predicted_object.outlinks,
                                prediction_to_reference_mapping,
                                reference_object.outlinks,
                                [tp |-> true_positives, fp |-> false_positives,
                                 raised |-> FALSE])
           b == IF a.raised
                THEN [fn |-> false_negatives, raised |-> TRUE]
                ELSE score_reference(reference_object.outlinks,
                                     reference_to_prediction_mapping,
                                     predicted_object.outlinks,
                                     [fn |-> false_negatives, raised |-> FALSE])
       IN /\ true_positives' = a.tp
          /\ false_positives' = a.fp
          /\ false_negatives' = b.fn
          /\ eval_pc' = IF b.raised THEN "KeyError" ELSE "scoring"
          /\ pair_idx' = IF b.raised THEN pair_idx ELSE pair_idx + 1
    /\ UNCHANGED <<evalInputs, object_matching_pair, reference_to_prediction_mapping,
                   prediction_to_reference_mapping, f1_score,
                   opVars, runVars, matchVars>>

\* main(), lines 127-128: the F1 quotient is computed and printed; a zero
\* denominator is a float division by zero, which raises
Report ==
    /\ eval_pc = "scoring"
    /\ pair_idx > Len(object_matching_pair)
    /\ LET den == 2 * true_positives + false_positives + false_negatives
       IN IF den = 0
          THEN /\ eval_pc' = "ZeroDivisionError"
               /\ f1_score' = f1_score
          ELSE /\ eval_pc' = "printed"
               /\ f1_score' = [num |-> 2 * true_positives, den |-> den]
    /\ UNCHANGED <<evalInputs, object_matching_pair, reference_to_prediction_mapping,
                   prediction_to_reference_mapping, true_positives, false_positives,
                   false_negatives, pair_idx, opVars, runVars, matchVars>>

NextEval == BuildPairs \/ ScorePair \/ Report

NoOps ==
    /\ graph = <<>>
    /\ last = NoCall
    /\ pre = <<>>
    /\ prev = NoCall
    /\ pre_prev = <<>>
    /\ ncalls = 0

\* main() on any two documents without edges
InitPairs ==
    /\ reference_objects \in EvalDocuments(0)
    /\ predicted_objects \in EvalDocuments(0)
    /\ NotScored
    /\ eval_pc = "parsed"
    /\ NoOps
    /\ NoRun
    /\ NoMatch

SpecPairs == InitPairs /\ [][NextEval]_vars

\* main() on a document evaluated against itself
InitSame ==
    /\ reference_objects \in EvalDocuments(MaxLinks)
    /\ predicted_objects = reference_objects
    /\ NotScored
    /\ eval_pc = "parsed"
    /\ NoOps
    /\ NoRun
    /\ NoMatch

SpecSame == InitSame /\ [][NextEval]_vars

\* main() on any predicted and any reference document
InitEval ==
    /\ reference_objects \in EvalDocuments(MaxLinks)
    /\ predicted_objects \in EvalDocuments(MaxLinks)
    /\ NotScored
    /\ eval_pc = "parsed"
    /\ NoOps
    /\ NoRun
    /\ NoMatch

SpecEval == InitEval /\ [][NextEval]_vars

\* ------------------------------------------------------- properties
InGraph(c) == c.from \in Nodes /\ c.to \in Nodes
SamePair(c, d) == c.from = d.from /\ c.to = d.to
OutSide(m, c) == Contains(m[c.from].outlinks, c.to)
InSide(m, c) == Contains(m[c.to].inlinks, c.from)

\* C1: starting from symmetric edge lists, after any addEdge and removeEdge
\* calls, failed ones included, b is in a.outlinks iff a is in b.inlinks.
C1_SymmetricAlways == Symmetric(graph)

C1_Witness ==
    /\ prev.op = "add" /\ prev.result = "added"
    /\ last.op = "remove" /\ last.result = "removed"
    /\ \E a \in Nodes : graph[a].outlinks # <<>>

\* C2: an addEdge that fails leaves every list as it was: unknown-node when
\* an id is absent, inconsistent-graph when exactly one endpoint lists the edge.
C2_FailedAddLeavesGraph ==
    last.op = "add" =>
        /\ ~InGraph(last) => last.result = "unknown_node"
        /\ (InGraph(last) /\ (OutSide(pre, last) # InSide(pre, last)))
               => last.result = "inconsistent"
        /\ last.result \in {"unknown_node", "inconsistent"} => graph = pre

C2_Witness ==
    /\ last.op = "add" /\ last.result = "inconsistent"
    /\ OutSide(pre, last) /\ ~InSide(pre, last)

\* C3: for ids of the graph hasEdge returns true exactly when both sides list
\* the edge, false exactly when neither does, raises when exactly one does,
\* and leaves the graph as it was.
C3_HasEdgeAgreesOrRaises ==
    (last.op = "has" /\ InGraph(last)) =>
        /\ last.result = "true" <=> (OutSide(pre, last) /\ InSide(pre, last))
        /\ last.result = "false" <=> (~OutSide(pre, last) /\ ~InSide(pre, last))
        /\ last.result = "inconsistent" <=> (OutSide(pre, last) # InSide(pre, last))
        /\ graph = pre

C3_Witness ==
    /\ last.op = "has" /\ last.result = "inconsistent"
    /\ ~OutSide(pre, last) /\ InSide(pre, last)

\* C4: on a consistent graph a second addEdge of the same pair does not raise
\* and leaves every list, multiplicities included, as the first call left it.
C4_AddEdgeIdempotent ==
    (prev.op = "add" /\ last.op = "add" /\ SamePair(prev, last) /\ InGraph(last)) =>
        /\ last.result = "noop"
        /\ graph = pre

C4_Witness ==
    /\ prev.op = "add" /\ prev.result = "added"
    /\ last.op = "add" /\ SamePair(prev, last)
    /\ Len(graph[last.from].outlinks) = 2

\* C5 as stated: addEdge(a,b) then removeEdge(a,b) restores the lists a and b
\* had before the addEdge, for any graph state.
C5_AddRemoveRestores ==
    (prev.op = "add" /\ last.op = "remove" /\ SamePair(prev, last) /\ InGraph(last)) =>
        /\ graph[last.from] = pre_prev[last.from]
        /\ graph[last.to] = pre_prev[last.to]

\* C5 amended: when neither a.outlinks lists b nor b.inlinks lists a before
\* the addEdge, addEdge(a,b) then removeEdge(a,b) restores the lists of a and b.
C5_AddRemoveRestoresAbsentEdge ==
    (/\ prev.op = "add" /\ last.op = "remove" /\ SamePair(prev, last) /\ InGraph(last)
     /\ ~OutSide(pre_prev, last) /\ ~InSide(pre_prev, last)) =>
        /\ graph[last.from] = pre_prev[last.from]
        /\ graph[last.to] = pre_prev[last.to]

C5_Witness ==
    /\ prev.op = "add" /\ prev.result = "added"
    /\ last.op = "remove" /\ last.result = "removed" /\ SamePair(prev, last)
    /\ pre_prev[last.from].outlinks # <<>>
    /\ graph = pre_prev

\* C6: run() leaves every input node's inlinks and outlinks as they were,
\* whether it returns or aborts, and a returned graph has the input's node ids.
C6_InputUntouched ==
    [][/\ mung' = mung
       /\ run_pc' = "returned" => DOMAIN graph' = DOMAIN mung]_vars

C6_Witness ==
    /\ run_pc = "returned"
    /\ ~replace_all_edges
    /\ last.op = "remove" /\ last.result = "removed"
    /\ graph # mung

\* has the sequence a true decision for the pair of its last decision before it
TrueDecidedBefore ==
    \E i \in 1..(Len(decisions) - 1) :
        decisions[i] = <<decisions[Len(decisions)][1], decisions[Len(decisions)][2], 1>>

\* C7 as stated: with replaceAllEdges = true no false decision finds its edge
\* present, so removeEdge is never called.
C7_RemoveNeverCalled ==
    replace_all_edges => last.op # "remove"

\* C7 amended: with replaceAllEdges = true a false decision for a pair that
\* no earlier decision of the sequence decided true finds no edge: removeEdge
\* is not called and the graph stays as it was.
C7_FalseDecisionNoOp ==
    (/\ replace_all_edges
     /\ decisions # <<>>
     /\ decisions[Len(decisions)][3] = 0
     /\ ~TrueDecidedBefore) =>
        /\ last.op = "has" /\ last.result = "false"
        /\ graph = pre

C7_Witness ==
    /\ replace_all_edges
    /\ Len(decisions) = 2
    /\ decisions[1][3] = 1
    /\ decisions[2][3] = 0
    /\ ~TrueDecidedBefore
    /\ last.op = "has" /\ last.result = "false"
    /\ \E n \in Nodes : mung[n].outlinks # <<>>

Area(o) == (o.right - o.left + 1) * (o.bottom - o.top + 1)
InterW(p, r) == Min(p.right, r.right) - Max(p.left, r.left) + 1
InterH(p, r) == Min(p.bottom, r.bottom) - Max(p.top, r.top) + 1
UnionArea(p, r) == Area(p) + Area(r) - InterW(p, r) * InterH(p, r)

\* C8: match returns true iff the class names are equal, iw > 0, ih > 0 and
\* iw*ih / (area(p) + area(r) - iw*ih) > threshold, strictly; equal class
\* names are required whatever the geometry.
C8_MatchIffIoUAboveThreshold ==
    matched # "none" =>
        /\ matched \in {"True", "False"}
        /\ matched = "True" <=>
            /\ p_obj.clsname = r_obj.clsname
            /\ InterW(p_obj, r_obj) > 0
            /\ InterH(p_obj, r_obj) > 0
            /\ InterW(p_obj, r_obj) * InterH(p_obj, r_obj) * threshold.den
                   > threshold.num * UnionArea(p_obj, r_obj)
        /\ (/\ InterW(p_obj, r_obj) > 0 /\ InterH(p_obj, r_obj) > 0
            /\ InterW(p_obj, r_obj) * InterH(p_obj, r_obj) * threshold.den
                   = threshold.num * UnionArea(p_obj, r_obj)) => matched = "False"
        /\ p_obj.clsname # r_obj.clsname => matched = "False"

C8_Witness ==
    /\ matched = "False"
    /\ threshold = DefaultThreshold
    /\ p_obj.clsname = r_obj.clsname
    /\ InterW(p_obj, r_obj) > 0 /\ InterH(p_obj, r_obj) > 0
    /\ InterW(p_obj, r_obj) * InterH(p_obj, r_obj) * threshold.den
           = threshold.num * UnionArea(p_obj, r_obj)

\* the position of the last pair of the list whose component `key` is id
LastPairWith(key, id) ==
    CHOOSE i \in DOMAIN object_matching_pair :
        /\ object_matching_pair[i][key] = id
        /\ \A j \in DOMAIN object_matching_pair :
               object_matching_pair[j][key] = id => j <= i

PairsBuilt == eval_pc \notin {"none", "parsed"}

\* C9: exactly one pair for every (predicted, reference) combination that
\* matches, in predicted-major then reference order, not restricted to be
\* one-to-one; each mapping sends an id to its partner in the last pair
\* that contains it.
C9_AllMatchesPairedLastWins ==
    PairsBuilt =>
        /\ \A i \in DOMAIN predicted_objects : \A j \in DOMAIN reference_objects :
               Cardinality({ k \in DOMAIN object_matching_pair :
                               object_matching_pair[k] =
                                   <<predicted_objects[i].objid,
                                     reference_objects[j].objid>> })
                 = IF match(predicted_objects[i], reference_objects[j], DefaultThreshold)
                   THEN 1 ELSE 0
        /\ \A k \in DOMAIN object_matching_pair :
               \E i \in DOMAIN predicted_objects : \E j \in DOMAIN reference_objects :
                   object_matching_pair[k] =
                       <<predicted_objects[i].objid, reference_objects[j].objid>>
        /\ \A k \in DOMAIN object_matching_pair : \A n \in DOMAIN object_matching_pair :
               k < n =>
                   \/ object_matching_pair[k][1] < object_matching_pair[n][1]
                   \/ /\ object_matching_pair[k][1] = object_matching_pair[n][1]
                      /\ object_matching_pair[k][2] < object_matching_pair[n][2]
        /\ DOMAIN reference_to_prediction_mapping =
               { object_matching_pair[k][2] : k \in DOMAIN object_matching_pair }
        /\ DOMAIN prediction_to_reference_mapping =
               { object_matching_pair[k][1] : k \in DOMAIN object_matching_pair }
        /\ \A r \in DOMAIN reference_to_prediction_mapping :
               reference_to_prediction_mapping[r] =
                   object_matching_pair[LastPairWith(2, r)][1]
        /\ \A q \in DOMAIN prediction_to_reference_mapping :
               prediction_to_reference_mapping[q] =
                   object_matching_pair[LastPairWith(1, q)][2]

C9_Witness ==
    /\ PairsBuilt
    /\ object_matching_pair = << <<1, 1>>, <<1, 2>>, <<2, 1>>, <<2, 2>> >>
    /\ predicted_objects[1].right # predicted_objects[2].right
    /\ reference_to_prediction_mapping[1] = 2
    /\ prediction_to_reference_mapping[1] = 2

NumEdges(objs) ==
    Cardinality({ e \in (DOMAIN objs) \X (DOMAIN objs) :
                    Contains(objs[e[1]].outlinks, objs[e[2]].objid) })

IdentityMatching ==
    /\ predicted_objects = reference_objects
    /\ Len(object_matching_pair) = Len(predicted_objects)
    /\ \A i \in DOMAIN predicted_objects :
           object_matching_pair[i] = <<predicted_objects[i].objid,
                                       predicted_objects[i].objid>>

\* C10: identical predicted and reference graphs matched object to itself
\* score TP = number of edges, FP = 0, FN = 0, and an F-score of 1.0 when
\* there is an edge.
C10_PerfectMatchScores ==
    (/\ eval_pc \in {"scoring", "printed", "ZeroDivisionError", "KeyError"}
     /\ IdentityMatching) =>
        /\ eval_pc # "KeyError"
        /\ pair_idx > Len(object_matching_pair) =>
               /\ true_positives = NumEdges(predicted_objects)
               /\ false_positives = 0
               /\ false_negatives = 0
        /\ (pair_idx > Len(object_matching_pair) /\ eval_pc # "scoring"
            /\ NumEdges(predicted_objects) > 0) =>
               /\ eval_pc = "printed"
               /\ f1_score.num = f1_score.den
               /\ f1_score.den > 0

C10_Witness ==
    /\ eval_pc = "printed"
    /\ IdentityMatching
    /\ Len(predicted_objects) = 2
    /\ true_positives = 2
    /\ f1_score = [num |-> 4, den |-> 4]

\* the scoring loop has run over every pair, or main() has ended after it
ScoringDone ==
    \/ eval_pc \in {"printed", "ZeroDivisionError"}
    \/ eval_pc = "scoring" /\ pair_idx > Len(object_matching_pair)

PredictedById(id) == cropobject_dict_from_list(predicted_objects)[id]
ReferenceById(id) == cropobject_dict_from_list(reference_objects)[id]

\* the (pair, outlink) positions of the predicted side whose target has no
\* mapping or a mapped id outside the reference object's outlinks
ClaimedFalsePositives ==
    { e \in (DOMAIN object_matching_pair) \X (1..MaxObjects) :
        LET p == PredictedById(object_matching_pair[e[1]][1])
            r == ReferenceById(object_matching_pair[e[1]][2])
        IN /\ e[2] \in DOMAIN p.outlinks
           /\ \/ p.outlinks[e[2]] \notin DOMAIN prediction_to_reference_mapping
              \/ ~Contains(r.outlinks,
                           prediction_to_reference_mapping[p.outlinks[e[2]]]) }

\* the (pair, outlink) positions of the reference side whose target has no
\* mapping or a mapped id outside the predicted object's outlinks
ClaimedFalseNegatives ==
    { e \in (DOMAIN object_matching_pair) \X (1..MaxObjects) :
        LET p == PredictedById(object_matching_pair[e[1]][1])
            r == ReferenceById(object_matching_pair[e[1]][2])
        IN /\ e[2] \in DOMAIN r.outlinks
           /\ \/ r.outlinks[e[2]] \notin DOMAIN reference_to_prediction_mapping
              \/ ~Contains(p.outlinks,
                           reference_to_prediction_mapping[r.outlinks[e[2]]]) }

\* C11: edge scoring completes with counts for every matching and every pair
\* of graphs: a predicted edge whose target has no mapping is a false
\* positive, not an error, and a reference edge whose target has no mapped
\* predicted id among p's outlinks, or no mapping at all, is a false negative.
C11_ScoringCompletesWithCounts ==
    /\ eval_pc # "KeyError"
    /\ ScoringDone =>
           /\ false_positives = Cardinality(ClaimedFalsePositives)
           /\ false_negatives = Cardinality(ClaimedFalseNegatives)

\* the outlink entries of the predicted objects that are in no matched pair
UnmatchedPredictedEdges ==
    { e \in (DOMAIN predicted_objects) \X (1..MaxObjects) :
        /\ predicted_objects[e[1]].objid \notin DOMAIN prediction_to_reference_mapping
        /\ e[2] \in DOMAIN predicted_objects[e[1]].outlinks }

\* C12: a predicted object that is in no matched pair adds one false positive
\* for each of its outgoing edges to the aggregate counts.
C12_UnmatchedEdgesAreFalsePositives ==
    ScoringDone =>
        false_positives = Cardinality(ClaimedFalsePositives)
                          + Cardinality(UnmatchedPredictedEdges)

\* C13: when 2*TP + FP + FN is 0 the evaluation reports the metric as
\* undefined (a quotient with denominator 0, neither 0 nor 1) and raises no
\* error.
C13_ZeroDenominatorReported ==
    (/\ ScoringDone
     /\ eval_pc # "scoring"
     /\ 2 * true_positives + false_positives + false_negatives = 0) =>
        /\ eval_pc = "printed"
        /\ f1_score.den = 0

\* decisions i and j are for the same ordered pair
SameDecidedPair(i, j) ==
    decisions[i][1] = decisions[j][1] /\ decisions[i][2] = decisions[j][2]

\* the sequence has a decision for the ordered pair (a, b)
Decided(a, b) ==
    \E i \in DOMAIN decisions : decisions[i][1] = a /\ decisions[i][2] = b

\* every undecided pair listed by m is listed by n, on the same side
UndecidedKept(m, n) ==
    \A a \in Nodes :
        /\ \A i \in DOMAIN m[a].outlinks :
               Decided(a, m[a].outlinks[i]) \/ Contains(n[a].outlinks, m[a].outlinks[i])
        /\ \A i \in DOMAIN m[a].inlinks :
               Decided(m[a].inlinks[i], a) \/ Contains(n[a].inlinks, m[a].inlinks[i])

\* C14: when run() returns, a pair the sequence decides has its edge in the
\* output iff its last decision is true; a pair without a decision has no
\* edge when replacing all edges (the output lists nothing the cleared graph
\* did not) and the edge status of the input otherwise (the output and the
\* input list the same undecided pairs).
C14_LastDecisionWins ==
    run_pc = "returned" =>
        /\ \A i \in DOMAIN decisions :
               (\A j \in DOMAIN decisions : j > i => ~SameDecidedPair(i, j)) =>
                   /\ Contains(graph[decisions[i][1]].outlinks, decisions[i][2])
                          <=> decisions[i][3] = 1
                   /\ Contains(graph[decisions[i][2]].inlinks, decisions[i][1])
                          <=> decisions[i][3] = 1
        /\ UndecidedKept(graph, IF replace_all_edges THEN clear_links(mung) ELSE mung)
        /\ ~replace_all_edges => UndecidedKept(mung, graph)

C14_Witness ==
    /\ run_pc = "returned"
    /\ ~replace_all_edges
    /\ decisions = << <<1, 2, 1>>, <<1, 2, 0>> >>
    /\ Contains(mung[2].outlinks, 2) /\ Contains(graph[2].outlinks, 2)
    /\ ~Contains(graph[1].outlinks, 2)

====
